---- MODULE Spec2Model ----
(***************************************************************************)
(* Model of window.ProductTree                                             *)
(* (src/plugins/product_tree/static/product_tree/tree.js):                 *)
(*   escape, buildMermaid (nodeLabel, id, walk), renderMermaidFromEndpoint *)
(*                                                                         *)
(* A JavaScript string is a sequence of tokens; a token is one character   *)
(* ("a", "[", a double quote, ...) or an indivisible literal piece of the  *)
(* source's templates that holds no quote and no square bracket            *)
(* ("graph TD", "-->", "IPN: ", a number's decimal form).                  *)
(* An absent (undefined) or empty string field is the empty sequence: the  *)
(* source tests string fields by truthiness only.                          *)
(***************************************************************************)
EXTENDS Integers, Sequences, FiniteSets, TLC

VARIABLES
  objs,      \* the input object graph: object index -> fields of the object
  root,      \* buildMermaid's argument `node`: an entry (null or an object)
  bpc,       \* position in buildMermaid: "idle", "call", "walk", "returned", "thrown"
  stack,     \* the active calls of walk, innermost last
  lines,     \* const lines
  seen,      \* const seen
  origin,    \* history: for each element of lines, the object and entry it came from
  result,    \* the string buildMermaid returned
  error,     \* the exception buildMermaid threw: "none", "TypeError", "RangeError"
  escIn,     \* escape's argument, when escape is applied on its own
  escOut,    \* escape's result
  escPc,     \* "idle", "call", "done"
  rpc,       \* position in renderMermaidFromEndpoint
  graphEl,   \* whether document.getElementById(graphId) found an element
  errEl,     \* whether document.getElementById(errorId) found an element
  mermaid,   \* whether window.mermaid is set
  graphText, \* graph.textContent / graph.innerHTML
  errText,   \* err.textContent
  def,       \* const def
  failure,   \* history: the first failure of the call ("none" when there is none)
  escaped    \* history: an exception left the call or one of its promise handlers

buildVars  == <<objs, root, bpc, stack, lines, seen, origin, result, error>>
escVars    == <<escIn, escOut, escPc>>
renderVars == <<rpc, graphEl, errEl, mermaid, graphText, errText, def, failure, escaped>>
vars       == <<buildVars, escVars, renderVars>>

(***************************************************************************)
(* Bounds of the model.                                                    *)
(***************************************************************************)
\* number of objects of the input graph
NObj == 2
\* number of entries of all the children lists of the input graph together
MaxEdges == 2
\* length of the strings escape is applied to on its own
MaxLen == 3

Objs == 1..NObj

\* The call stack of the engine holds every chain of calls of walk on an
\* input without a cycle of unflagged children (at most one frame per
\* object) and no unbounded chain.
StackLimit == NObj + 1

(***************************************************************************)
(* Values of the input.                                                    *)
(***************************************************************************)
\* n.id of an object without the field
NoId == 0 - 1
\* child.quantity of an object without the field
NoQty == 0 - 1

\* An entry of a children list, and buildMermaid's argument: null, an object
\* of the graph, or an edge object {quantity: 2, child: {id: 2, name: "B",
\* children: []}} (the shape the data model of the specification gives to an
\* entry; the edge object has no id of its own, and walk never reads child).
NullEntry    == [kind |-> "null", ref |-> 0]
NodeEntry(o) == [kind |-> "node", ref |-> o]
EdgeEntry    == [kind |-> "edge", ref |-> 0]
Entries == {NullEntry, EdgeEntry} \cup {NodeEntry(o) : o \in Objs}

\* An entry of a substitutes list: null, or an object with name / ipn / id.
NullSub  == [isNull |-> TRUE,  name |-> <<>>, ipn |-> <<>>, id |-> NoId]
NamedSub == [isNull |-> FALSE, name |-> <<"S">>, ipn |-> <<>>, id |-> 7]
IdSub    == [isNull |-> FALSE, name |-> <<>>, ipn |-> <<>>, id |-> 8]

\* substitutes of an object without the field (not an array)
NoSubs == [isArray |-> FALSE, items |-> <<>>]
SubsList(s) == [isArray |-> TRUE, items |-> s]

\* In the inputs the part with id 1 is named "A", the part with id 2 is named
\* "B" and is used with quantity 2; other nodes have no name and no quantity.
NameOfId(i) == IF i = 1 THEN <<"A">> ELSE IF i = 2 THEN <<"B">> ELSE <<>>
QtyOfId(i) == IF i = 2 THEN 2 ELSE NoQty

\* The fields of an object other than its children list.
\*   kids: "list" (children is an array), "missing" (no children field),
\*         "notalist" (children is a truthy value that is not an array)
Attr(i, c, ipn, subs, kids) ==
  [id |-> i, cycle |-> c, quantity |-> QtyOfId(i), name |-> NameOfId(i),
   ipn |-> ipn, substitutes |-> subs, kids |-> kids]

\* the fields of an object with or without entries in its children list
InnerAttrs ==
  {Attr(i, c, <<>>, NoSubs, "list") : i \in {1, 2}, c \in BOOLEAN}
    \cup {Attr(0, FALSE, <<>>, NoSubs, "list"), Attr(NoId, FALSE, <<>>, NoSubs, "list")}
\* the fields an object without entries may have instead
LeafAttrs ==
  { Attr(1, FALSE, <<>>, NoSubs, "missing"),
    Attr(1, FALSE, <<>>, NoSubs, "notalist"),
    Attr(1, FALSE, <<>>, SubsList(<<>>), "list"),
    Attr(1, FALSE, <<>>, SubsList(<<NullSub>>), "list"),
    Attr(1, FALSE, <<"X">>, SubsList(<<NamedSub, IdSub>>), "list") }
DefaultAttr == Attr(1, FALSE, <<>>, NoSubs, "list")
AttrsFor(kids) == IF kids = <<>> THEN InnerAttrs \cup LeafAttrs ELSE InnerAttrs

\* The children lists of the objects: a sequence of at most MaxEdges entries
\* cut into NObj consecutive pieces, piece o being the list of object o.
Flats == UNION {[1..s -> Entries] : s \in 0..MaxEdges}
Cuts(s) == {c \in [0..NObj -> 0..s] :
              /\ c[0] = 0
              /\ c[NObj] = s
              /\ \A o \in Objs : c[o-1] <= c[o]}
Piece(flat, c, o) == SubSeq(flat, c[o-1] + 1, c[o])

\* the objects the entries of a list refer to
Targets(list) == {list[k].ref : k \in 1..Len(list)} \ {0}

RECURSIVE ReachFrom(_, _, _)
\* the objects some chain of entries leads to from the objects `todo`
ReachFrom(kidsOf, todo, done) ==
  IF todo = {} THEN done
  ELSE LET o == CHOOSE o \in todo : TRUE
       IN ReachFrom(kidsOf, (todo \cup Targets(kidsOf[o])) \ (done \cup {o}),
                    done \cup {o})

\* The object with fields a and children list kids.
Obj(a, kids) ==
  [id |-> a.id, cycle |-> a.cycle, quantity |-> a.quantity, name |-> a.name,
   ipn |-> a.ipn, substitutes |-> a.substitutes, kids |-> a.kids,
   children |-> kids]

KidsOf(flat, c) == [o \in Objs |-> Piece(flat, c, o)]

\* The children lists of an input: an object no chain of entries reaches from
\* object 1 is not part of the input and has no entries.
Rooted(kidsOf) ==
  \A o \in Objs \ ReachFrom(kidsOf, {1}, {}) : kidsOf[o] = <<>>

\* The fields of the objects of an input with the children lists kidsOf: an
\* object of the input draws its fields, the others have the default fields.
Fields(kidsOf) ==
  LET reach == ReachFrom(kidsOf, {1}, {})
  IN {a \in [Objs -> InnerAttrs \cup LeafAttrs] :
        \A o \in Objs : IF o \in reach THEN a[o] \in AttrsFor(kidsOf[o])
                                       ELSE a[o] = DefaultAttr}

Graph(kidsOf, a) == [o \in Objs |-> Obj(a[o], kidsOf[o])]

NoGraph == [o \in Objs |-> Obj(DefaultAttr, <<>>)]

\* The children lists of a parsed JSON text: every object is the entry of one
\* list at most and the root of none (the text holds no object twice).
Refs(kidsOf, o) ==
  Cardinality({<<p, k>> \in Objs \X (1..MaxEdges) :
                 k <= Len(kidsOf[p]) /\ kidsOf[p][k] = NodeEntry(o)})
JsonTree(kidsOf) ==
  /\ Refs(kidsOf, 1) = 0
  /\ \A o \in Objs : Refs(kidsOf, o) <= 1

(***************************************************************************)
(* escape (tree.js 4-6)                                                    *)
(***************************************************************************)
Quote == "\""
Backslash == "\\"

\* An argument of escape: null / undefined, or a string.
NullValue == [isNull |-> TRUE, s |-> <<>>]
Str(s) == [isNull |-> FALSE, s |-> s]

\* String(s || '')
stringOrEmpty(v) == IF v.isNull THEN <<>> ELSE v.s

\* What .replace(/"/g, '\"') puts in the place of a double quote: the
\* JavaScript literal '\"' is the one-character string holding a double quote.
quoteReplacement == <<Quote>>

\* The three replacements of line 5 in turn, on one token.
escapeToken(t) ==
  LET t1 == IF t = Quote THEN quoteReplacement ELSE <<t>>
      t2 == [k \in 1..Len(t1) |-> IF t1[k] = "[" THEN "(" ELSE t1[k]]
      t3 == [k \in 1..Len(t2) |-> IF t2[k] = "]" THEN ")" ELSE t2[k]]
  IN t3

RECURSIVE escapeTokens(_)
escapeTokens(s) ==
  IF s = <<>> THEN <<>> ELSE escapeToken(Head(s)) \o escapeTokens(Tail(s))

escape(v) == escapeTokens(stringOrEmpty(v))

\* escape applied on its own
escapeCall ==
  /\ escPc = "call"
  /\ escOut' = escape(escIn)
  /\ escPc' = "done"
  /\ UNCHANGED <<escIn, buildVars, renderVars>>

(***************************************************************************)
(* buildMermaid (tree.js 8-44)                                             *)
(***************************************************************************)
\* `!n.id`: the id is missing or falsy
NoTruthyId(i) == i = NoId \/ i = 0

\* entry.id / entry.cycle / entry.quantity as walk reads them from an entry
\* that is not null; an edge object has a quantity and a child and no id
EntryId(e)    == IF e.kind = "node" THEN objs[e.ref].id ELSE NoId
EntryCycle(e) == IF e.kind = "node" THEN objs[e.ref].cycle ELSE FALSE
EntryQty(e)   == IF e.kind = "node" THEN objs[e.ref].quantity
                 ELSE IF e.kind = "edge" THEN 2 ELSE NoQty

\* `!child || !child.id` (line 31), `!n || !n.id` (line 25)
Skipped(e) == e.kind = "null" \/ NoTruthyId(EntryId(e))

RECURSIVE joinWith(_, _)
\* Array.prototype.join of a list of strings
joinWith(list, sep) ==
  IF list = <<>> THEN <<>>
  ELSE IF Len(list) = 1 THEN list[1]
  ELSE list[1] \o sep \o joinWith(Tail(list), sep)

\* s.name || s.ipn || s.id of a substitute that is not null
subText(s) ==
  IF s.name # <<>> THEN s.name
  ELSE IF s.ipn # <<>> THEN s.ipn
  ELSE <<ToString(s.id)>>

\* nodeLabel throws (a property of null is read at line 17) when substitutes
\* is a non-empty array that holds a null entry
nodeLabelThrows(n) ==
  /\ n.substitutes.isArray
  /\ \E k \in 1..Len(n.substitutes.items) : n.substitutes.items[k].isNull

\* '\n<U+21BB> cycle'
CycleSuffix == <<"\n", "\\u21BB cycle">>

nodeLabel(n) ==
  LET name  == IF n.name # <<>> THEN n.name ELSE <<"(unnamed)">>
      ipn   == IF n.ipn # <<>> THEN <<"\n", "IPN: ">> \o n.ipn ELSE <<>>
      cycle == IF n.cycle THEN CycleSuffix ELSE <<>>
      substitutes ==
        IF n.substitutes.isArray /\ Len(n.substitutes.items) > 0
        THEN <<"\n", "Subs: ">>
               \o joinWith([k \in 1..Len(n.substitutes.items) |->
                              subText(n.substitutes.items[k])], <<",", " ">>)
        ELSE <<>>
  IN name \o ipn \o substitutes \o cycle

\* id(n): `P${n.id}`, of the id i of n
id(i) == <<"P", ToString(i)>>

\* the node-declaration line of object n (line 27)
declLine(n) ==
  id(n.id) \o <<"[", Quote>> \o escape(Str(nodeLabel(n))) \o <<Quote, "]">>

connectorSolid(c) == "-->"
\* const connector (line 34)
connector(c) == IF c THEN "-.->" ELSE "-->"

qtyTextNone(q) == <<>>
\* const qty (line 33)
qtyText(q) == IF q # NoQty THEN <<"|", ToString(q), "|">> ELSE <<>>

\* the edge line from object n to the entry child (line 35)
edgeLine(n, child) ==
  id(n.id) \o <<" ", connector(EntryCycle(child))>> \o qtyText(EntryQty(child))
    \o <<" ">> \o id(EntryId(child))

\* (n.children || [])
childrenOf(n) == IF n.kids = "list" THEN n.children ELSE <<>>

hasNever(i) == FALSE
\* seen.has(n.id) (line 26)
has(i) == i \in seen

recursesAlways(child) == TRUE
\* !child.cycle (line 37): walk(child) is called after the edge line
recurses(child) == ~EntryCycle(child)

\* A call of walk: its argument and the position of its forEach (0: the
\* call is at line 25; k >= 1: forEach is at entry k of the children).
Frame(e) == [e |-> e, i |-> 0]
Top == stack[Len(stack)]
\* walk returns: the caller's forEach goes on with its next entry
Returned ==
  IF Len(stack) = 1 THEN <<>>
  ELSE [SubSeq(stack, 1, Len(stack) - 1) EXCEPT ![Len(stack) - 1].i = @ + 1]

\* lines 9, 10 and the call of line 42
buildMermaidCall ==
  /\ bpc = "call"
  /\ bpc' = "walk"
  /\ lines' = << <<"graph TD">> >>
  /\ origin' = << [n |-> 0, c |-> NullEntry] >>
  /\ seen' = {}
  /\ stack' = <<Frame(root)>>
  /\ UNCHANGED <<objs, root, result, error, escVars, renderVars>>

\* line 25: walk returns at once
walkSkip ==
  /\ bpc = "walk" /\ stack # <<>> /\ Top.i = 0
  /\ Skipped(Top.e)
  /\ stack' = Returned
  /\ UNCHANGED <<objs, root, bpc, lines, seen, origin, result, error, escVars, renderVars>>

\* lines 26-29, the id not seen before: the declaration is appended
walkDeclare ==
  /\ bpc = "walk" /\ stack # <<>> /\ Top.i = 0
  /\ ~Skipped(Top.e)
  /\ ~has(objs[Top.e.ref].id)
  /\ ~nodeLabelThrows(objs[Top.e.ref])
  /\ lines' = Append(lines, declLine(objs[Top.e.ref]))
  /\ origin' = Append(origin, [n |-> Top.e.ref, c |-> NullEntry])
  /\ seen' = seen \cup {objs[Top.e.ref].id}
  /\ stack' = [stack EXCEPT ![Len(stack)].i = 1]
  /\ UNCHANGED <<objs, root, bpc, result, error, escVars, renderVars>>

\* line 27 throws inside nodeLabel (line 17): s.name of a null substitute
walkDeclareThrows ==
  /\ bpc = "walk" /\ stack # <<>> /\ Top.i = 0
  /\ ~Skipped(Top.e)
  /\ ~has(objs[Top.e.ref].id)
  /\ nodeLabelThrows(objs[Top.e.ref])
  /\ bpc' = "thrown"
  /\ error' = "TypeError"
  /\ UNCHANGED <<objs, root, stack, lines, seen, origin, result, escVars, renderVars>>

\* line 26, the id seen before: nothing is appended
walkSeen ==
  /\ bpc = "walk" /\ stack # <<>> /\ Top.i = 0
  /\ ~Skipped(Top.e)
  /\ has(objs[Top.e.ref].id)
  /\ stack' = [stack EXCEPT ![Len(stack)].i = 1]
  /\ UNCHANGED <<objs, root, bpc, lines, seen, origin, result, error, escVars, renderVars>>

\* line 30: children is truthy and has no forEach
walkChildrenThrows ==
  /\ bpc = "walk" /\ stack # <<>> /\ Top.i = 1
  /\ objs[Top.e.ref].kids = "notalist"
  /\ bpc' = "thrown"
  /\ error' = "TypeError"
  /\ UNCHANGED <<objs, root, stack, lines, seen, origin, result, escVars, renderVars>>

\* the entry forEach hands to the callback of lines 30-40
Child == childrenOf(objs[Top.e.ref])[Top.i]
InForEach ==
  /\ bpc = "walk" /\ stack # <<>> /\ Top.i >= 1
  /\ objs[Top.e.ref].kids # "notalist"
  /\ Top.i <= Len(childrenOf(objs[Top.e.ref]))

\* line 31: the entry is skipped
walkSkipChild ==
  /\ InForEach
  /\ Skipped(Child)
  /\ stack' = [stack EXCEPT ![Len(stack)].i = @ + 1]
  /\ UNCHANGED <<objs, root, bpc, lines, seen, origin, result, error, escVars, renderVars>>

\* lines 33-37, child.cycle set: the edge line and no call of walk
walkEdgeCycle ==
  /\ InForEach
  /\ ~Skipped(Child)
  /\ ~recurses(Child)
  /\ lines' = Append(lines, edgeLine(objs[Top.e.ref], Child))
  /\ origin' = Append(origin, [n |-> Top.e.ref, c |-> Child])
  /\ stack' = [stack EXCEPT ![Len(stack)].i = @ + 1]
  /\ UNCHANGED <<objs, root, bpc, seen, result, error, escVars, renderVars>>

\* lines 33-38, child.cycle not set: the edge line and the call walk(child)
walkEdgeRecurse ==
  /\ InForEach
  /\ ~Skipped(Child)
  /\ recurses(Child)
  /\ Len(stack) < StackLimit
  /\ lines' = Append(lines, edgeLine(objs[Top.e.ref], Child))
  /\ origin' = Append(origin, [n |-> Top.e.ref, c |-> Child])
  /\ stack' = Append(stack, Frame(Child))
  /\ UNCHANGED <<objs, root, bpc, seen, result, error, escVars, renderVars>>

\* lines 33-38 with the call stack exhausted: the call walk(child) throws
\* RangeError (Maximum call stack size exceeded)
walkEdgeOverflow ==
  /\ InForEach
  /\ ~Skipped(Child)
  /\ recurses(Child)
  /\ Len(stack) >= StackLimit
  /\ lines' = Append(lines, edgeLine(objs[Top.e.ref], Child))
  /\ origin' = Append(origin, [n |-> Top.e.ref, c |-> Child])
  /\ bpc' = "thrown"
  /\ error' = "RangeError"
  /\ UNCHANGED <<objs, root, stack, seen, result, escVars, renderVars>>

\* forEach is past the last entry: walk returns
walkReturn ==
  /\ bpc = "walk" /\ stack # <<>> /\ Top.i >= 1
  /\ objs[Top.e.ref].kids # "notalist"
  /\ Top.i > Len(childrenOf(objs[Top.e.ref]))
  /\ stack' = Returned
  /\ UNCHANGED <<objs, root, bpc, lines, seen, origin, result, error, escVars, renderVars>>

\* line 43
buildMermaidReturn ==
  /\ bpc = "walk" /\ stack = <<>>
  /\ result' = joinWith(lines, <<"\n">>)
  /\ bpc' = "returned"
  /\ UNCHANGED <<objs, root, stack, lines, seen, origin, error, escVars, renderVars>>

(***************************************************************************)
(* renderMermaidFromEndpoint (tree.js 46-68)                               *)
(***************************************************************************)
\* String(e) of the exceptions and rejections of the call
FetchError  == <<"TypeError: Failed to fetch">>
StatusError == <<"Error: HTTP ", "500">>
JsonError   == <<"SyntaxError: Unexpected token">>
RenderError == <<"Error: Parse error">>
NullError   == <<"TypeError: Cannot set properties of null">>
buildError  == IF error = "RangeError"
               THEN <<"RangeError: Maximum call stack size exceeded">>
               ELSE <<"TypeError: Cannot read properties of null">>
Svg == <<"<svg>">>

\* the catch clause of lines 65-67 with String(e) = text
Caught(text, why) ==
  /\ errText' = IF errEl THEN text ELSE errText
  /\ failure' = why
  /\ rpc' = "done"
  /\ UNCHANGED <<graphEl, errEl, mermaid, graphText, def, escaped>>

\* lines 47-49 and the call of fetch: the call waits for the response
renderCall ==
  /\ rpc = "call"
  /\ errText' = IF errEl THEN <<>> ELSE errText
  /\ rpc' = "fetch"
  /\ UNCHANGED <<graphEl, errEl, mermaid, graphText, def, failure, escaped>>
  /\ UNCHANGED <<buildVars, escVars>>

\* line 51: the promise of fetch rejects
fetchRejects ==
  /\ rpc = "fetch"
  /\ Caught(FetchError, "fetch")
  /\ UNCHANGED <<buildVars, escVars>>

\* line 52: the response is not ok
fetchNotOk ==
  /\ rpc = "fetch"
  /\ Caught(StatusError, "status")
  /\ UNCHANGED <<buildVars, escVars>>

\* lines 51-53: the response is ok, the call waits for res.json()
fetchOk ==
  /\ rpc = "fetch"
  /\ rpc' = "json"
  /\ UNCHANGED <<graphEl, errEl, mermaid, graphText, errText, def, failure, escaped>>
  /\ UNCHANGED <<buildVars, escVars>>

\* line 53: the promise of res.json() rejects
jsonRejects ==
  /\ rpc = "json"
  /\ Caught(JsonError, "json")
  /\ UNCHANGED <<buildVars, escVars>>

\* lines 53-54: res.json() resolves to null or to the root of a parsed JSON
\* text, and buildMermaid(data) is called
jsonResolves ==
  /\ rpc = "json"
  /\ \/ root' = NullEntry /\ objs' = NoGraph
     \/ /\ root' = NodeEntry(1)
        /\ \E flat \in Flats : \E c \in Cuts(Len(flat)) :
             /\ Rooted(KidsOf(flat, c))
             /\ JsonTree(KidsOf(flat, c))
             /\ \E a \in Fields(KidsOf(flat, c)) : objs' = Graph(KidsOf(flat, c), a)
  /\ rpc' = "build"
  /\ bpc' = "call"
  /\ UNCHANGED <<graphEl, errEl, mermaid, graphText, errText, def, failure, escaped>>
  /\ UNCHANGED <<stack, lines, seen, origin, result, error, escVars>>

\* line 54: buildMermaid threw
buildThrew ==
  /\ rpc = "build" /\ bpc = "thrown"
  /\ Caught(buildError, "build")
  /\ UNCHANGED <<buildVars, escVars>>

\* lines 54-56: window.mermaid is set, render is called and the call ends
\* with the promise of render pending
renderStarts ==
  /\ rpc = "build" /\ bpc = "returned"
  /\ mermaid
  /\ def' = result
  /\ rpc' = "render"
  /\ UNCHANGED <<graphEl, errEl, mermaid, graphText, errText, failure, escaped>>
  /\ UNCHANGED <<buildVars, escVars>>

\* lines 62-64: no window.mermaid, the definition is shown as text
showText ==
  /\ rpc = "build" /\ bpc = "returned"
  /\ ~mermaid /\ graphEl
  /\ def' = result
  /\ graphText' = result
  /\ rpc' = "done"
  /\ UNCHANGED <<graphEl, errEl, mermaid, errText, failure, escaped>>
  /\ UNCHANGED <<buildVars, escVars>>

\* line 63 with graph null: the assignment throws, lines 65-67 catch it
showTextThrows ==
  /\ rpc = "build" /\ bpc = "returned"
  /\ ~mermaid /\ ~graphEl
  /\ def' = result
  /\ errText' = IF errEl THEN NullError ELSE errText
  /\ failure' = "dom"
  /\ rpc' = "done"
  /\ UNCHANGED <<graphEl, errEl, mermaid, graphText, escaped>>
  /\ UNCHANGED <<buildVars, escVars>>

\* lines 56-58: the promise of render resolves, the svg is shown
renderResolves ==
  /\ rpc = "render" /\ graphEl
  /\ graphText' = Svg
  /\ rpc' = "done"
  /\ UNCHANGED <<graphEl, errEl, mermaid, errText, def, failure, escaped>>
  /\ UNCHANGED <<buildVars, escVars>>

rejectedTextKept == graphText
\* the value line 59 gives graph.textContent
rejectedText == def

\* lines 58-61: the promise of render rejects
renderRejects ==
  /\ rpc = "render" /\ graphEl
  /\ graphText' = rejectedText
  /\ errText' = IF errEl THEN RenderError ELSE errText
  /\ failure' = "render"
  /\ rpc' = "done"
  /\ UNCHANGED <<graphEl, errEl, mermaid, def, escaped>>
  /\ UNCHANGED <<buildVars, escVars>>

\* lines 57 and 59 with graph null, the promise of render resolves: the
\* handler of then throws at line 57, the handler of catch takes that
\* exception and throws at line 59, and the promise the chain ends with
\* rejects with nothing handling it
renderResolvesThrows ==
  /\ rpc = "render" /\ ~graphEl
  /\ failure' = "dom"
  /\ escaped' = TRUE
  /\ rpc' = "done"
  /\ UNCHANGED <<graphEl, errEl, mermaid, graphText, errText, def>>
  /\ UNCHANGED <<buildVars, escVars>>

\* line 59 with graph null, the promise of render rejects: the handler of
\* catch throws before line 60, nothing handles the rejection
renderRejectsThrows ==
  /\ rpc = "render" /\ ~graphEl
  /\ failure' = "render"
  /\ escaped' = TRUE
  /\ rpc' = "done"
  /\ UNCHANGED <<graphEl, errEl, mermaid, graphText, errText, def>>
  /\ UNCHANGED <<buildVars, escVars>>

(***************************************************************************)
(* Specifications.                                                         *)
(***************************************************************************)
BuildIdle ==
  /\ stack = <<>> /\ lines = <<>> /\ seen = {} /\ origin = <<>>
  /\ result = <<>> /\ error = "none"
EscapeIdle == escIn = NullValue /\ escOut = <<>> /\ escPc = "idle"
RenderIdle ==
  /\ rpc = "idle" /\ graphEl = TRUE /\ errEl = TRUE /\ mermaid = FALSE
  /\ graphText = <<>> /\ errText = <<>> /\ def = <<>>
  /\ failure = "none" /\ escaped = FALSE

\* buildMermaid called with any of the inputs
Init ==
  /\ \/ root = NullEntry /\ objs = NoGraph
     \/ /\ root = NodeEntry(1)
        /\ \E flat \in Flats : \E c \in Cuts(Len(flat)) :
             /\ Rooted(KidsOf(flat, c))
             /\ \E a \in Fields(KidsOf(flat, c)) : objs = Graph(KidsOf(flat, c), a)
  /\ bpc = "call"
  /\ BuildIdle
  /\ EscapeIdle
  /\ RenderIdle

Next ==
  \/ buildMermaidCall
  \/ walkSkip
  \/ walkDeclare
  \/ walkDeclareThrows
  \/ walkSeen
  \/ walkChildrenThrows
  \/ walkSkipChild
  \/ walkEdgeCycle
  \/ walkEdgeRecurse
  \/ walkEdgeOverflow
  \/ walkReturn
  \/ buildMermaidReturn

Spec == Init /\ [][Next]_vars

\* escape called with null or with any string of at most MaxLen characters
Alphabet == {"a", Quote, "[", "]", Backslash}
Strings == UNION {[1..k -> Alphabet] : k \in 0..MaxLen}
InitEscape ==
  /\ escIn \in {NullValue} \cup {Str(s) : s \in Strings}
  /\ escOut = <<>>
  /\ escPc = "call"
  /\ root = NullEntry /\ objs = NoGraph /\ bpc = "idle"
  /\ BuildIdle
  /\ RenderIdle

NextEscape == escapeCall

SpecEscape == InitEscape /\ [][NextEscape]_vars

\* renderMermaidFromEndpoint called in a page with or without the two
\* elements (the error element showing the message of an earlier call) and
\* with or without the rendering library
InitRender ==
  /\ root = NullEntry /\ objs = NoGraph
  /\ bpc = "idle"
  /\ BuildIdle
  /\ EscapeIdle
  /\ rpc = "call"
  /\ graphEl \in BOOLEAN /\ errEl \in BOOLEAN /\ mermaid \in BOOLEAN
  /\ graphText = <<>> /\ def = <<>>
  /\ errText = (IF errEl THEN <<"an earlier message">> ELSE <<>>)
  /\ failure = "none" /\ escaped = FALSE

NextRender ==
  \/ renderCall
  \/ fetchRejects
  \/ fetchNotOk
  \/ fetchOk
  \/ jsonRejects
  \/ jsonResolves
  \/ buildMermaidCall
  \/ walkSkip
  \/ walkDeclare
  \/ walkDeclareThrows
  \/ walkSeen
  \/ walkChildrenThrows
  \/ walkSkipChild
  \/ walkEdgeCycle
  \/ walkEdgeRecurse
  \/ walkReturn
  \/ buildMermaidReturn
  \/ buildThrew
  \/ renderStarts
  \/ showText
  \/ showTextThrows
  \/ renderResolves
  \/ renderRejects
  \/ renderResolvesThrows
  \/ renderRejectsThrows

SpecRender == InitRender /\ [][NextRender]_vars

(***************************************************************************)
(* Properties.                                                             *)
(***************************************************************************)
\* a node-declaration line: P<id>["<label>"]
IsDecl(l) == Len(l) >= 3 /\ l[3] = "["
\* an edge line: P<id> <connector>... P<id>
IsEdge(l) == Len(l) >= 4 /\ l[3] = " "
\* the id a declaration line declares, the id an edge line leads to
DeclId(l) == l[2]
EdgeTarget(l) == l[Len(l)]
Decls == {j \in DOMAIN lines : IsDecl(lines[j])}
Edges == {j \in DOMAIN lines : IsEdge(lines[j])}
\* the objects of the input: those a chain of entries reaches from the root
InputObjs == ReachFrom([o \in Objs |-> objs[o].children], {1}, {})

\* C1: the walk ends on every input, also on a graph with a cycle none of
\* whose nodes carries the cycle flag: the recursion is stopped before it
\* exhausts the call stack, so that line 43 is reached and a string returned.
C1_WalkTerminates == ~(bpc = "thrown" /\ error = "RangeError")

\* C2: in every state of a run the line buffer holds at most one declaration
\* line per node id, and every declared id is in the seen set.
C2_DeclaredOnce ==
  /\ \A j \in Decls : \A k \in Decls : DeclId(lines[j]) = DeclId(lines[k]) => j = k
  /\ \A j \in Decls : objs[origin[j].n].id \in seen

\* C2, its case: buildMermaid returned, some id was reached through two edges
\* and is declared.
C2_Witness ==
  /\ bpc = "returned"
  /\ \E j \in Edges : \E k \in Edges : \E d \in Decls :
       /\ j # k
       /\ EdgeTarget(lines[j]) = EdgeTarget(lines[k])
       /\ DeclId(lines[d]) = EdgeTarget(lines[j])

\* C3: when buildMermaid has returned, the output holds a declaration line
\* for the id of every child with the cycle flag that an edge line leads to.
C3_CycleChildDeclared ==
  bpc = "returned" =>
    \A j \in Edges : EntryCycle(origin[j].c) =>
      \E d \in Decls : DeclId(lines[d]) = EdgeTarget(lines[j])

\* C4: walk is never called on a child with the cycle flag (every call below
\* the outermost one has an argument without the flag), and no line comes
\* from the visit of such a child: an object with the flag that is not the
\* root is the source of no declaration line and of no edge line.
C4_NoRecursionIntoCycleChild ==
  /\ \A k \in 2..Len(stack) : ~EntryCycle(stack[k].e)
  /\ \A j \in DOMAIN lines :
       (origin[j].n # 0 /\ objs[origin[j].n].cycle) => origin[j].n = root.ref

\* C4, its case: buildMermaid returned after an edge line led to a child with
\* the cycle flag that is not the root and has entries of its own.
C4_Witness ==
  /\ bpc = "returned"
  /\ \E j \in Edges :
       /\ EntryCycle(origin[j].c)
       /\ origin[j].c.ref # root.ref
       /\ objs[origin[j].c.ref].children # <<>>

\* C5: for an input whose nodes all have an id (0 included), none with the
\* cycle flag, the output holds one declaration line for each of the
\* distinct ids and no other declaration line.
NodesOnly ==
  \A o \in InputObjs :
    /\ objs[o].id # NoId
    /\ ~objs[o].cycle
    /\ objs[o].kids = "list"
    /\ ~nodeLabelThrows(objs[o])
    /\ \A k \in 1..Len(objs[o].children) : objs[o].children[k].kind = "node"
C5_OneDeclarationPerId ==
  (bpc = "returned" /\ root = NodeEntry(1) /\ NodesOnly) =>
    /\ Cardinality(Decls) = Cardinality({objs[o].id : o \in InputObjs})
    /\ \A o \in InputObjs : \E d \in Decls : DeclId(lines[d]) = ToString(objs[o].id)

\* the root and the child of the example, and the text of its output
ExampleRoot(kids) == Obj(Attr(1, FALSE, <<>>, NoSubs, "list"), kids)
ExampleChild == Obj(Attr(2, FALSE, <<>>, NoSubs, "list"), <<>>)
ExampleOutput ==
  <<"graph TD", "\n",
    "P", "1", "[", Quote, "A", Quote, "]", "\n",
    "P", "1", " ", "-->", "|", "2", "|", " ", "P", "2", "\n",
    "P", "2", "[", Quote, "B", Quote, "]">>

C7_EscapeSafe ==
  escPc = "done" =>
    /\ \A k \in 1..Len(escOut) :
         /\ escOut[k] \notin {"[", "]"}
         /\ escOut[k] = Quote => (k > 1 /\ escOut[k-1] = Backslash)
    /\ escIn.isNull => escOut = <<>>

\* C8: buildMermaid throws on no malformed input (root missing, node or
\* child without id, null entry, children missing or not a list, a null
\* entry in substitutes).
C8_NoThrowOnMalformed == ~(bpc = "thrown" /\ error = "TypeError")

C10_DashedIffCycle ==
  \A j \in Edges :
    /\ EntryCycle(origin[j].c) => lines[j][4] = "-.->"
    /\ ~EntryCycle(origin[j].c) => lines[j][4] = "-->"

\* C10, its case: buildMermaid returned a text with an edge line to a child
\* with the cycle flag and an edge line to a child without it.
C10_Witness ==
  /\ bpc = "returned"
  /\ \E j \in Edges : EntryCycle(origin[j].c)
  /\ \E j \in Edges : ~EntryCycle(origin[j].c)

====
